---- MODULE Spec2Model ----
(***************************************************************************)
(* Smartbot crawl -> chunk -> embed -> retrieve pipeline.                  *)
(*                                                                         *)
(* Spec          one crawl_project invocation over a site graph            *)
(*               (app/services/crawler.py), with its worker jobs and the   *)
(*               Document/Chunk store.                                     *)
(* SpecOverlap   several crawl invocations on the same project, started    *)
(*               through the two HTTP handlers, free to overlap.           *)
(* SpecThrottle  the pool threads' use of one _FetchThrottle against a     *)
(*               monotonic clock.                                          *)
(* SpecRetryAfter  the same, with every form of the Retry-After header.    *)
(* SpecLive      one crawl with fair scheduling of its threads.            *)
(* SpecIndex     a crawl, a manual note and reembed_project on one store.  *)
(* SpecNormalize, SpecChunker, SpecIndexer, SpecRetriever, SpecCosine      *)
(*               one call of normalize_url, split_into_chunks,             *)
(*               index_document_chunks, fetch_relevant_chunks and          *)
(*               _cosine_similarity on every input of a bounded set.       *)
(*                                                                         *)
(* A URL string is modelled by its parts: the network location, the page   *)
(* the path names, the number of "/" characters that end the string before *)
(* any fragment, and whether a "#fragment" follows.                        *)
(***************************************************************************)
EXTENDS Integers, Sequences, FiniteSets, TLC

VARIABLES
    \* ---- inputs of a crawl, fixed by Init -------------------------------
    config,            \* CrawlConfig: max_pages, max_depth, max_concurrency
    site,              \* name of the site graph that the HTTP server serves
    pending,           \* crawl requests the users have not sent yet
    \* ---- persisted state -------------------------------------------------
    documents,         \* rows of table documents
    chunks,            \* rows of table chunks
    next_doc_id,       \* primary-key sequence of documents
    next_chunk_id,     \* primary-key sequence of chunks
    crawl_status,      \* Project.crawl_status (committed value)
    last_crawled_at,   \* Project.last_crawled_at (0 is NULL)
    utcnow,            \* wall clock read by datetime.now
    \* ---- locals of each crawl_project invocation -------------------------
    pc,                \* position of the orchestrator thread
    loaded_status,     \* crawl_status as the invocation's session loaded it
    visited,
    queue,
    in_flight,         \* futures not yet folded, as indices into jobs
    processed_pages,
    failed,
    done,              \* futures returned by wait() and not yet folded
    client_closed,
    raised,            \* ghost: what raised the exception that left the main loop
    \* ---- executor jobs ---------------------------------------------------
    jobs,              \* every job submitted so far, in submission order
    \* ---- _FetchThrottle and the threads that use it ----------------------
    now,               \* time.monotonic(), in ticks of 0.05 s
    next_allowed,      \* _FetchThrottle._next_allowed
    min_interval,      \* CrawlConfig.min_request_interval, in ticks
    thr,               \* per pool thread: position, wake-up time, Retry-After
    backlog,           \* jobs waiting in the executor's work queue
    grants,            \* ghost: the times at which wait_turn() returned
    deadline,          \* ghost: the largest now + delay any backoff() asked for
    owed,              \* ghost: the largest now + Retry-After any 429/503 carried
    \* ---- the indexer's callers other than the crawl ------------------------
    rb,                \* the background task of reembed_project: position, transaction
    notes,             \* manual notes the users have not posted yet
    \* ---- one call of a pure function ---------------------------------------
    arg,               \* << >>, or <<the arguments of the call>>
    ret                \* << >>, or <<what the call returned>>

crawlVars == <<config, site, pending, documents, chunks, next_doc_id, next_chunk_id,
               crawl_status, last_crawled_at, utcnow, pc, visited, queue, in_flight,
               processed_pages, failed, done, client_closed, raised, loaded_status, jobs>>
throttleVars == <<now, next_allowed, min_interval, thr, backlog, grants, deadline, owed>>
indexerVars == <<rb, notes>>
callVars == <<arg, ret>>
otherVars == <<indexerVars, callVars>>
vars == <<crawlVars, throttleVars, indexerVars, callVars>>

(***************************************************************************)
(* Bounds                                                                  *)
(***************************************************************************)
MaxPages == 6          \* largest max_pages tried on the small sites
MaxDepth == 3          \* largest max_depth tried on the small sites
MaxConcurrency == 2    \* largest max_concurrency tried
MaxRuns == 2           \* crawl invocations on the project in SpecOverlap
MaxThreads == 2        \* pool threads that share the throttle in SpecThrottle
MaxRequests == 3       \* jobs handed to the pool in SpecThrottle
MaxInterval == 2       \* largest min_request_interval tried, in ticks
MaxDelay == 3          \* largest Retry-After tried, in ticks
MaxTime == 5           \* the monotonic clock stops here

Runs == 1..MaxRuns
PROJECT == 1           \* id of the project being crawled
OTHER_PROJECT == 2     \* id of another project that shares the store

Max(a, b) == IF a >= b THEN a ELSE b
Min(a, b) == IF a <= b THEN a ELSE b
Range(s) == {s[i] : i \in DOMAIN s}

(***************************************************************************)
(* URLs                                                                    *)
(***************************************************************************)
Url(h, p, s, f) == [host |-> h, path |-> p, slashes |-> s, frag |-> f]
P(p) == Url("a.com", p, 0, FALSE)

\* urlparse, drop the fragment, urlunparse, then cut one trailing "/".
normalize_url(url) ==
    [host |-> url.host, path |-> url.path,
     slashes |-> IF url.slashes > 0 THEN url.slashes - 1 ELSE 0,
     frag |-> FALSE]

\* Mutant: every host counts as the site.
same_domain_AnyHost(url, root) == TRUE

\* urlparse(url).netloc == urlparse(root).netloc
same_domain(url, root) == url.host = root.host

(***************************************************************************)
(* The sites served by the HTTP server.  links[p] are the anchors of page  *)
(* p in document order, already resolved by urljoin; responses[p] are the  *)
(* ways the server may answer a GET of page p; robots are the pages that   *)
(* robots.txt disallows; index_faults are the pages whose transaction may  *)
(* fail; bad_href are the pages with an anchor that urljoin rejects;       *)
(* retry_after are the forms of the Retry-After header that the server     *)
(* puts on a 429 or 503 answer;                                            *)
(* nchunks[p] is the number of chunks split_into_chunks makes of page p.   *)
(***************************************************************************)
A == "a.com"
NoLinks == << >>

SiteRace ==
    [start |-> P(0),
     links |-> [p \in 0..5 |->
                  CASE p = 0 -> <<P(1), P(2)>>
                    [] p = 1 -> <<P(3)>>
                    [] p = 2 -> <<P(4)>>
                    [] p = 3 -> <<P(4)>>
                    [] p = 4 -> <<P(5)>>
                    [] OTHER -> NoLinks],
     responses |-> [p \in 0..5 |-> {"html"}],
     robots |-> {},
     index_faults |-> {},
     bad_href |-> {},
     retry_after |-> {"seconds"},
     nchunks |-> [p \in 0..5 |-> 1]]

SiteVariants ==
    [start |-> Url(A, 0, 1, FALSE),
     links |-> [p \in 0..3 |->
                  CASE p = 0 -> <<P(1), Url(A, 1, 0, TRUE), Url(A, 1, 3, FALSE),
                                  Url("sub.a.com", 3, 0, FALSE), Url(A, 2, 1, FALSE)>>
                    [] p = 1 -> <<P(0), Url(A, 2, 2, TRUE), P(3)>>
                    [] p = 2 -> <<Url(A, 1, 2, TRUE)>>
                    [] OTHER -> NoLinks],
     responses |-> [p \in 0..3 |-> {"html"}],
     robots |-> {},
     index_faults |-> {},
     bad_href |-> {},
     retry_after |-> {"seconds"},
     nchunks |-> [p \in 0..3 |-> IF p = 2 THEN 2 ELSE 1]]

SiteFlaky ==
    [start |-> P(0),
     links |-> [p \in 0..4 |->
                  CASE p = 0 -> <<P(1), P(2), P(3), P(4)>>
                    [] p = 1 -> <<P(4)>>
                    [] p = 3 -> <<P(0)>>
                    [] OTHER -> NoLinks],
     responses |-> [p \in 0..4 |->
                  CASE p = 1 -> {"html", "ratelimited"}
                    [] p = 4 -> {"html", "nonhtml", "empty", "neterror", "extract_error"}
                    [] OTHER -> {"html"}],
     robots |-> {2},
     index_faults |-> {3},
     bad_href |-> {1},
     retry_after |-> {"absent", "seconds", "date"},
     nchunks |-> [p \in 0..4 |-> 1]]

SiteTiny ==
    [start |-> P(0),
     links |-> [p \in 0..1 |-> IF p = 0 THEN <<P(1)>> ELSE <<P(0)>>],
     responses |-> [p \in 0..1 |-> {"html"}],
     robots |-> {},
     index_faults |-> {},
     bad_href |-> {},
     retry_after |-> {"seconds"},
     nchunks |-> [p \in 0..1 |-> 1]]

\* The start page links to page 1 twice, the second time with three trailing
\* slashes.
SiteTwice ==
    [start |-> P(0),
     links |-> [p \in 0..1 |-> IF p = 0 THEN <<P(1), Url(A, 1, 3, FALSE)>> ELSE NoLinks],
     responses |-> [p \in 0..1 |-> {"html"}],
     robots |-> {},
     index_faults |-> {},
     bad_href |-> {},
     retry_after |-> {"seconds"},
     nchunks |-> [p \in 0..1 |-> 1]]

Sites == [race |-> SiteRace, variants |-> SiteVariants, flaky |-> SiteFlaky,
          tiny |-> SiteTiny, twice |-> SiteTwice]

Site == Sites[site]
start_url == Site.start

(***************************************************************************)
(* The store                                                               *)
(***************************************************************************)
Document(id, project_id, source_type, url_or_name) ==
    [id |-> id, project_id |-> project_id, source_type |-> source_type,
     url_or_name |-> url_or_name]

Chunk(id, project_id, document_id) ==
    [id |-> id, project_id |-> project_id, document_id |-> document_id]

\* The rows a store holds after an earlier crawl of the project, a manual note
\* and a crawl of another project.
PriorDocuments ==
    {Document(1, PROJECT, "CRAWLED_PAGE", P(1)),
     Document(2, PROJECT, "MANUAL_ENTRY", P(1)),
     Document(3, OTHER_PROJECT, "CRAWLED_PAGE", P(1))}
PriorChunks ==
    {Chunk(1, PROJECT, 1), Chunk(2, PROJECT, 2), Chunk(3, OTHER_PROJECT, 3)}

\* Mutant: the query forgets the URL and takes every crawled page.
delete_existing_document_AnyUrl(docs, project_id, url) ==
    {d.id : d \in {e \in docs : /\ e.project_id = project_id
                                /\ e.source_type = "CRAWLED_PAGE"}}

\* The query of _delete_existing_document: the ids it is about to delete.
delete_existing_document(docs, project_id, url) ==
    {d.id : d \in {e \in docs : /\ e.project_id = project_id
                                /\ e.source_type = "CRAWLED_PAGE"
                                /\ e.url_or_name = url}}

\* Mutant: deleting a Document leaves its Chunks behind.
Cascade_None(cs, deleted) == cs

\* Document.chunks is cascade="all,delete" and chunks.document_id is
\* ON DELETE CASCADE: the Chunk rows left when the Documents in deleted go.
Cascade(cs, deleted) == {c \in cs : c.document_id \notin deleted}

\* index_document_chunks: one Chunk per chunk text, ids from the sequence.
index_document_chunks(project_id, document_id, n, first_id) ==
    {Chunk(first_id + i, project_id, document_id) : i \in 0..(n - 1)}

\* The background task of reembed_project with its open transaction: the ids
\* of the Chunk rows its DELETE removed, the Documents its query returned and
\* has not indexed yet, the Chunk rows it has flushed; all of it invisible to
\* the other sessions until the commit.  outcome is a ghost: how the last
\* call ended.
ReembedTask(requests) ==
    [pc |-> "idle", requests |-> requests, deleted |-> {}, todo |-> << >>,
     added |-> {}, outcome |-> "none"]

\* Row locks (PostgreSQL): a session that deletes the Documents in existing,
\* and with them their Chunks, waits for the reembed transaction while that
\* one has deleted one of these Chunks or has inserted a Chunk that refers to
\* one of these Documents.
LockedByReembed(existing) ==
    /\ rb.pc # "idle"
    /\ \/ \E c \in chunks : c.document_id \in existing /\ c.id \in rb.deleted
       \/ \E c \in rb.added : c.document_id \in existing

(***************************************************************************)
(* crawl_project: the orchestrator                                         *)
(***************************************************************************)
Job(r, target_url, depth) ==
    [run |-> r, target_url |-> target_url, depth |-> depth, state |-> "submitted",
     requested |-> << >>, existing |-> {}, document_id |-> 0,
     processed |-> 0, links |-> << >>, exc |-> FALSE, fault |-> "none"]

Link(target, depth) == [url |-> target, depth |-> depth]

\* Mutant: the outer while forgets the jobs that are still in flight.
LoopCond_QueueOnly(q, inflight, processed) ==
    q # << >> /\ processed < config.max_pages

\* The condition of the outer while of the main loop.
LoopCond(q, inflight, processed) ==
    (q # << >> \/ inflight # {}) /\ processed < config.max_pages

LoopHead(q, inflight, processed) ==
    IF LoopCond(q, inflight, processed) THEN "fill" ELSE "finally"

\* Mutant: the fill phase forgets the page budget.
FillCond_NoBudget(r) ==
    /\ queue[r] # << >>
    /\ Cardinality(in_flight[r]) < config.max_concurrency

\* Mutant: the fill phase forgets the size of the pool.
FillCond_NoLimit(r) ==
    /\ queue[r] # << >>
    /\ processed_pages[r] + Cardinality(in_flight[r]) < config.max_pages

\* Mutant: the fill phase tests the budget without the jobs in flight.
FillCond_ProcessedOnly(r) ==
    /\ queue[r] # << >>
    /\ Cardinality(in_flight[r]) < config.max_concurrency
    /\ processed_pages[r] < config.max_pages

\* The condition of the inner while, the fill phase.
FillCond(r) ==
    /\ queue[r] # << >>
    /\ Cardinality(in_flight[r]) < config.max_concurrency
    /\ processed_pages[r] + Cardinality(in_flight[r]) < config.max_pages

\* Mutant: the fill phase forgets the depth test.
FillSkips_NoDepth(r, normalized, depth) ==
    \/ normalized \in visited[r]
    \/ ~same_domain(normalized, start_url)

\* The two "continue" tests of the fill phase.
FillSkips(r, normalized, depth) ==
    \/ normalized \in visited[r]
    \/ depth > config.max_depth
    \/ ~same_domain(normalized, start_url)

\* The links of a folded result that are appended to the queue.
FoldLinks(links, processed, seen) ==
    IF processed >= config.max_pages
    THEN << >>
    ELSE SelectSeq([i \in DOMAIN links |-> Link(normalize_url(links[i].url), links[i].depth)],
                   LAMBDA l : l.url \notin seen)

storeVars == <<documents, chunks, next_doc_id, next_chunk_id>>
projectVars == <<crawl_status, last_crawled_at, utcnow>>
inputVars == <<config, site>>

\* A crawl is requested: start_crawl (api) commits RUNNING itself before it
\* hands the crawl to a background task; trigger_crawl (admin) and
\* scripts/run_crawler.py only start it.
StartCrawlRequest(r) ==
    /\ pending > 0
    /\ pc[r] = "idle"
    /\ \A q \in Runs : q < r => pc[q] # "idle"
    /\ \E via \in {"api", "admin"} :
          crawl_status' = IF via = "api" THEN "RUNNING" ELSE crawl_status
    /\ pending' = pending - 1
    /\ pc' = [pc EXCEPT ![r] = "task"]
    /\ UNCHANGED <<inputVars, storeVars, last_crawled_at, utcnow, visited, queue, in_flight,
                   processed_pages, failed, done, client_closed, raised, loaded_status,
                   jobs, throttleVars, otherVars>>

\* The background task opens its session and loads the Project row.
TaskLoad(r) ==
    /\ pc[r] = "task"
    /\ loaded_status' = [loaded_status EXCEPT ![r] = crawl_status]
    /\ pc' = [pc EXCEPT ![r] = "begin"]
    /\ UNCHANGED <<inputVars, pending, storeVars, projectVars, visited, queue, in_flight,
                   processed_pages, failed, done, client_closed, raised, jobs, throttleVars, otherVars>>

\* crawl_project up to the first test of the main loop.  The ORM writes the
\* column only when the assigned value differs from the loaded one.
CrawlBegin(r) ==
    /\ pc[r] = "begin"
    /\ crawl_status' = IF loaded_status[r] # "RUNNING" THEN "RUNNING" ELSE crawl_status
    /\ visited' = [visited EXCEPT ![r] = {}]
    /\ queue' = [queue EXCEPT ![r] = <<Link(start_url, 0)>>]
    /\ processed_pages' = [processed_pages EXCEPT ![r] = 0]
    /\ in_flight' = [in_flight EXCEPT ![r] = {}]
    /\ failed' = [failed EXCEPT ![r] = FALSE]
    /\ pc' = [pc EXCEPT ![r] = LoopHead(<<Link(start_url, 0)>>, {}, 0)]
    /\ UNCHANGED <<inputVars, pending, storeVars, last_crawled_at, utcnow, done,
                   client_closed, raised, loaded_status, jobs, throttleVars, otherVars>>

\* One iteration of the fill phase: pop a job, skip it or submit it.
\* executor.submit raises RuntimeError when no thread can be started.
FillPop(r) ==
    /\ pc[r] = "fill"
    /\ FillCond(r)
    /\ LET job == Head(queue[r])
           normalized == normalize_url(job.url)
       IN  /\ queue' = [queue EXCEPT ![r] = Tail(@)]
           /\ IF FillSkips(r, normalized, job.depth)
              THEN UNCHANGED <<visited, jobs, in_flight, failed, raised, pc>>
              ELSE /\ visited' = [visited EXCEPT ![r] = @ \cup {normalized}]
                   /\ \E started \in BOOLEAN :
                        IF started
                        THEN /\ jobs' = Append(jobs, Job(r, normalized, job.depth))
                             /\ in_flight' = [in_flight EXCEPT ![r] = @ \cup {Len(jobs) + 1}]
                             /\ UNCHANGED <<failed, raised, pc>>
                        ELSE /\ failed' = [failed EXCEPT ![r] = TRUE]
                             /\ raised' = [raised EXCEPT ![r] = "submit"]
                             /\ pc' = [pc EXCEPT ![r] = "finally"]
                             /\ UNCHANGED <<jobs, in_flight>>
    /\ UNCHANGED <<inputVars, pending, storeVars, projectVars, processed_pages, done,
                   client_closed, loaded_status, throttleVars, otherVars>>

\* Mutant: the main loop calls wait() even when nothing is in flight.
AfterFill_NoBreak(inflight) == "wait"

\* "if not in_flight: break", else wait().
AfterFill(inflight) == IF inflight = {} THEN "finally" ELSE "wait"

\* The fill phase ends: break when nothing is in flight, else wait().
FillEnd(r) ==
    /\ pc[r] = "fill"
    /\ ~FillCond(r)
    /\ pc' = [pc EXCEPT ![r] = AfterFill(in_flight[r])]
    /\ UNCHANGED <<inputVars, pending, storeVars, projectVars, visited, queue, in_flight,
                   processed_pages, failed, done, client_closed, raised, loaded_status, jobs,
                   throttleVars, otherVars>>

\* wait(in_flight, FIRST_COMPLETED) returns the futures that have completed.
Wait(r) ==
    /\ pc[r] = "wait"
    /\ \E j \in in_flight[r] : jobs[j].state = "done"
    /\ done' = [done EXCEPT ![r] = {j \in in_flight[r] : jobs[j].state = "done"}]
    /\ pc' = [pc EXCEPT ![r] = "fold"]
    /\ UNCHANGED <<inputVars, pending, storeVars, projectVars, visited, queue, in_flight,
                   processed_pages, failed, client_closed, raised, loaded_status, jobs,
                   throttleVars, otherVars>>

\* One iteration of "for future in done"; future.result() re-raises what the
\* job raised.  After the last one the outer while is tested again.
FoldOne(r) ==
    /\ pc[r] = "fold"
    /\ \E j \in done[r] :
         /\ in_flight' = [in_flight EXCEPT ![r] = @ \ {j}]
         /\ IF jobs[j].exc
            THEN /\ failed' = [failed EXCEPT ![r] = TRUE]
                 /\ raised' = [raised EXCEPT ![r] = "result"]
                 /\ done' = [done EXCEPT ![r] = {}]
                 /\ pc' = [pc EXCEPT ![r] = "finally"]
                 /\ UNCHANGED <<processed_pages, queue>>
            ELSE LET processed == processed_pages[r] + jobs[j].processed
                     q == queue[r] \o FoldLinks(jobs[j].links, processed, visited[r])
                 IN  /\ processed_pages' = [processed_pages EXCEPT ![r] = processed]
                     /\ queue' = [queue EXCEPT ![r] = q]
                     /\ done' = [done EXCEPT ![r] = @ \ {j}]
                     /\ pc' = [pc EXCEPT ![r] =
                                 IF done[r] = {j}
                                 THEN LoopHead(q, in_flight[r] \ {j}, processed)
                                 ELSE "fold"]
                     /\ UNCHANGED <<failed, raised>>
    /\ UNCHANGED <<inputVars, pending, storeVars, projectVars, visited, client_closed,
                   loaded_status, jobs, throttleVars, otherVars>>

\* finally: client.close()
CloseClient(r) ==
    /\ pc[r] = "finally"
    /\ client_closed' = [client_closed EXCEPT ![r] = TRUE]
    /\ pc' = [pc EXCEPT ![r] = "shutdown"]
    /\ UNCHANGED <<inputVars, pending, storeVars, projectVars, visited, queue, in_flight,
                   processed_pages, failed, done, raised, loaded_status, jobs, throttleVars, otherVars>>

\* Mutant: the finally block ignores the failed flag.
FinalStatus_AlwaysDone(r) == "DONE"

\* The status the finally block writes.
FinalStatus(r) == IF failed[r] THEN "FAILED" ELSE "DONE"

\* Mutant: executor.shutdown(wait=False) returns at once.
shutdown_NoWait(r) == TRUE

\* executor.shutdown(wait=True) returns once every job of the run has ended.
shutdown(r) == \A j \in DOMAIN jobs : jobs[j].run = r => jobs[j].state = "done"

\* finally: executor.shutdown(wait=True) returns once every job has ended;
\* then the status and last_crawled_at are committed and crawl_project returns.
Finalize(r) ==
    /\ pc[r] = "shutdown"
    /\ shutdown(r)
    /\ crawl_status' = FinalStatus(r)
    /\ utcnow' = utcnow + 1
    /\ last_crawled_at' = utcnow + 1
    /\ pc' = [pc EXCEPT ![r] = "returned"]
    /\ UNCHANGED <<inputVars, pending, storeVars, visited, queue, in_flight,
                   processed_pages, failed, done, client_closed, raised, loaded_status, jobs,
                   throttleVars, otherVars>>

(***************************************************************************)
(* crawl_project._process_url: one executor job                            *)
(***************************************************************************)
orchVars == <<pc, visited, queue, in_flight, processed_pages, failed, done,
              client_closed, raised, loaded_status>>

\* Mutant: the job lets the exception out instead of returning 0, [].
ZeroYield_Reraise(job, fault) ==
    [job EXCEPT !.state = "done", !.processed = 0, !.links = << >>, !.exc = TRUE,
                !.fault = fault]

\* except Exception: log, return 0, []  (also the other zero-yield returns).
ZeroYield(job, fault) ==
    [job EXCEPT !.state = "done", !.processed = 0, !.links = << >>, !.exc = FALSE,
                !.fault = fault]

\* Is a page at this depth allowed to hand on its links (depth + 1)?
LinksWanted(depth) == depth + 1 <= config.max_depth

\* The anchors of a page as (target, next_depth) pairs.
PageLinks(page, depth) ==
    [i \in DOMAIN Site.links[page] |-> Link(Site.links[page][i], depth + 1)]

\* normalize, robots gate, wait_turn, GET, status and content checks, extract.
WorkerFetch(j) ==
    /\ jobs[j].state = "submitted"
    /\ LET job == jobs[j]
           normalized == normalize_url(job.target_url)
           page == normalized.path
       IN  IF page \in Site.robots
           THEN jobs' = [jobs EXCEPT ![j] = ZeroYield(job, "robots")]
           ELSE IF client_closed[job.run]
           THEN jobs' = [jobs EXCEPT ![j] = ZeroYield(job, "neterror")]
           ELSE \E response \in Site.responses[page] :
                  LET asked == [job EXCEPT !.requested = <<normalized>>]
                  IN  jobs' = [jobs EXCEPT ![j] =
                                 IF response = "html"
                                 THEN [asked EXCEPT !.state = "fetched"]
                                 ELSE ZeroYield(asked, response)]
    /\ UNCHANGED <<inputVars, pending, storeVars, projectVars, orchVars, throttleVars, otherVars>>

\* The job's own session: _delete_existing_document (query, delete, flush),
\* add the Document and flush (the id is drawn), index_document_chunks.
\* A database or embedding error ends the transaction and the job.
WorkerPersist(j) ==
    /\ jobs[j].state = "fetched"
    /\ LET job == jobs[j]
           normalized == job.requested[1]
       IN  \E outcome \in {"ok"} \cup (IF normalized.path \in Site.index_faults
                                       THEN {"db_error", "embed_error"} ELSE {}) :
             jobs' = [jobs EXCEPT ![j] =
                        IF outcome = "ok"
                        THEN [job EXCEPT !.state = "flushed",
                                         !.existing = delete_existing_document(
                                                          documents, PROJECT, normalized),
                                         !.document_id = next_doc_id]
                        ELSE ZeroYield(job, outcome)]
    /\ next_doc_id' = next_doc_id + 1
    /\ UNCHANGED <<inputVars, pending, documents, chunks, next_chunk_id, projectVars,
                   orchVars, throttleVars, otherVars>>

\* worker_db.commit(), then the links of the page when depth + 1 is allowed;
\* an anchor that urljoin rejects raises into the except clause.  The deletes
\* of the transaction wait for the rows a reembed transaction holds.
WorkerCommit(j) ==
    /\ jobs[j].state = "flushed"
    /\ ~LockedByReembed(jobs[j].existing)
    /\ LET job == jobs[j]
           normalized == job.requested[1]
           page == normalized.path
           n == Site.nchunks[page]
       IN  /\ documents' = {d \in documents : d.id \notin job.existing}
                              \cup {Document(job.document_id, PROJECT, "CRAWLED_PAGE",
                                             normalized)}
           /\ chunks' = Cascade(chunks, job.existing)
                           \cup index_document_chunks(PROJECT, job.document_id, n,
                                                      next_chunk_id)
           /\ next_chunk_id' = next_chunk_id + n
           /\ jobs' = [jobs EXCEPT ![j] =
                         IF LinksWanted(job.depth) /\ page \in Site.bad_href
                         THEN ZeroYield(job, "bad_href")
                         ELSE [job EXCEPT !.state = "done", !.processed = 1,
                                          !.links = IF LinksWanted(job.depth)
                                                    THEN PageLinks(page, job.depth)
                                                    ELSE << >>]]
    /\ UNCHANGED <<inputVars, pending, next_doc_id, projectVars, orchVars, throttleVars, otherVars>>

(***************************************************************************)
(* Specifications of the crawl                                             *)
(***************************************************************************)
Configs ==
    [max_pages : 1..MaxPages, max_depth : (-1)..MaxDepth,
     max_concurrency : 1..MaxConcurrency]

\* Does the store hold rows of earlier crawls?  The empty store is tried on
\* the sites without URL variants and page failures.
Priors == IF site \in {"variants", "flaky"} THEN {TRUE} ELSE BOOLEAN

InitCrawl ==
    /\ \E prior \in Priors :
         /\ documents = IF prior THEN PriorDocuments ELSE {}
         /\ chunks = IF prior THEN PriorChunks ELSE {}
         /\ crawl_status = IF prior THEN "DONE" ELSE "PENDING"
         /\ last_crawled_at = IF prior THEN 1 ELSE 0
    /\ next_doc_id = 4
    /\ next_chunk_id = 4
    /\ utcnow = 1
    /\ pc = [r \in Runs |-> "idle"]
    /\ loaded_status = [r \in Runs |-> "PENDING"]
    /\ visited = [r \in Runs |-> {}]
    /\ queue = [r \in Runs |-> << >>]
    /\ in_flight = [r \in Runs |-> {}]
    /\ processed_pages = [r \in Runs |-> 0]
    /\ failed = [r \in Runs |-> FALSE]
    /\ done = [r \in Runs |-> {}]
    /\ client_closed = [r \in Runs |-> FALSE]
    /\ raised = [r \in Runs |-> "no"]
    /\ jobs = << >>

InitThrottleIdle ==
    /\ now = 0
    /\ next_allowed = 0
    /\ min_interval = 0
    /\ thr = << >>
    /\ backlog = 0
    /\ grants = << >>
    /\ deadline = 0
    /\ owed = 0

\* No reembed task, no manual note and no call of a pure function.
InitOthersIdle ==
    /\ rb = ReembedTask(0)
    /\ notes = 0
    /\ arg = << >>
    /\ ret = << >>

Init ==
    /\ site \in {"race", "variants", "flaky"}
    /\ pending = 1
    /\ config \in Configs
    /\ InitCrawl
    /\ InitThrottleIdle
    /\ InitOthersIdle

NextCrawl ==
    \/ \E r \in Runs : StartCrawlRequest(r)
    \/ \E r \in Runs : TaskLoad(r)
    \/ \E r \in Runs : CrawlBegin(r)
    \/ \E r \in Runs : FillPop(r)
    \/ \E r \in Runs : FillEnd(r)
    \/ \E r \in Runs : Wait(r)
    \/ \E r \in Runs : FoldOne(r)
    \/ \E r \in Runs : CloseClient(r)
    \/ \E r \in Runs : Finalize(r)
    \/ \E j \in DOMAIN jobs : WorkerFetch(j)
    \/ \E j \in DOMAIN jobs : WorkerPersist(j)
    \/ \E j \in DOMAIN jobs : WorkerCommit(j)

Next == NextCrawl

Spec == Init /\ [][Next]_vars

\* The steps of the orchestrator thread of a crawl that has been started, and
\* the steps of the pool threads.
Orchestrator ==
    \E r \in Runs : \/ TaskLoad(r) \/ CrawlBegin(r) \/ FillPop(r) \/ FillEnd(r) \/ Wait(r)
                    \/ FoldOne(r) \/ CloseClient(r) \/ Finalize(r)
Workers ==
    \E j \in DOMAIN jobs : WorkerFetch(j) \/ WorkerPersist(j) \/ WorkerCommit(j)

\* One crawl over a site with link cycles.  The orchestrator thread keeps
\* running, and every job the pool holds is run to its end.
InitLive ==
    /\ site \in {"variants", "flaky"}
    /\ pending = 1
    /\ config \in [max_pages : {1, MaxPages}, max_depth : {MaxDepth},
                    max_concurrency : {MaxConcurrency}]
    /\ InitCrawl
    /\ InitThrottleIdle
    /\ InitOthersIdle

SpecLive == InitLive /\ [][Next]_vars /\ WF_vars(Orchestrator) /\ WF_vars(Workers)

InitOverlap ==
    /\ site = "tiny"
    /\ pending = MaxRuns
    /\ config \in [max_pages : {1}, max_depth : {1}, max_concurrency : {1}]
    /\ InitCrawl
    /\ InitThrottleIdle
    /\ InitOthersIdle

SpecOverlap == InitOverlap /\ [][Next]_vars

(***************************************************************************)
(* _FetchThrottle and the part of _process_url that uses it.  Time is in   *)
(* ticks of 0.05 s, the floor the constructor puts under the interval.     *)
(***************************************************************************)
INTERVAL_FLOOR == 1
DEFAULT_RETRY_AFTER == 100    \* 5 s

\* _FetchThrottle.__init__: self._interval
interval == Max(INTERVAL_FLOOR, min_interval)

Threads == 1..MaxThreads

\* Mutant: wait_turn lets the caller go one tick early.
TurnGranted_Early(allowed, t) == allowed - t <= 1

\* wait_turn, under the lock: may the caller go at time t?
TurnGranted(allowed, t) == allowed - t <= 0

\* wait_turn, under the lock: the value written when the caller may go.
NextTurn(t) == t + interval

\* Mutant: backoff overwrites next_allowed instead of taking the later time.
backoff_Overwrite(allowed, t, delay) == t + delay

\* backoff, under the lock.
backoff(allowed, t, delay) == Max(allowed, t + delay)

InitPool ==
    /\ now = 0
    /\ next_allowed = 0
    /\ min_interval \in 0..MaxInterval
    /\ thr = [t \in Threads |-> [pc |-> "idle", wake |-> 0, naps |-> 0]]
    /\ backlog = MaxRequests
    /\ grants = << >>
    /\ deadline = 0
    /\ owed = 0

\* A pool thread takes a job and reaches throttler.wait_turn().
ThreadStart(t) ==
    /\ thr[t].pc = "idle"
    /\ backlog > 0
    /\ backlog' = backlog - 1
    /\ thr' = [thr EXCEPT ![t].pc = "wait_turn", ![t].naps = 0]
    /\ UNCHANGED <<now, next_allowed, min_interval, grants, deadline, owed, crawlVars, otherVars>>

\* One pass of the loop of wait_turn with the lock held: return, or leave the
\* lock and sleep for wait_time.
WaitTurn(t) ==
    /\ thr[t].pc = "wait_turn"
    /\ IF TurnGranted(next_allowed, now)
       THEN /\ next_allowed' = NextTurn(now)
            /\ grants' = Append(grants, now)
            /\ thr' = [thr EXCEPT ![t].pc = "get"]
       ELSE /\ thr' = [thr EXCEPT ![t].pc = "sleep", ![t].wake = next_allowed,
                                  ![t].naps = Min(@ + 1, 2)]
            /\ UNCHANGED <<next_allowed, grants>>
    /\ UNCHANGED <<now, min_interval, backlog, deadline, owed, crawlVars, otherVars>>

\* time.sleep(wait_time) returns, not before wait_time has passed.
Wake(t) ==
    /\ thr[t].pc = "sleep"
    /\ now >= thr[t].wake
    /\ thr' = [thr EXCEPT ![t].pc = "wait_turn", ![t].wake = 0]
    /\ UNCHANGED <<now, next_allowed, min_interval, backlog, grants, deadline, owed, crawlVars, otherVars>>

\* client.get returns: status 429 or 503, or any other answer, after which the
\* job does not touch the throttle again.
Get(t) ==
    /\ thr[t].pc = "get"
    /\ \/ thr' = [thr EXCEPT ![t].pc = "idle", ![t].naps = 0]
       \/ thr' = [thr EXCEPT ![t].pc = "backoff", ![t].naps = 0]
    /\ UNCHANGED <<now, next_allowed, min_interval, backlog, grants, deadline, owed, crawlVars, otherVars>>

\* The Retry-After header of a 429 or 503 answer: absent, a number of
\* seconds, or an HTTP-date (RFC 9110); delay is how far ahead it points.
RetryAfterHeaders ==
    {h \in {[form |-> "absent", delay |-> DEFAULT_RETRY_AFTER]}
            \cup {[form |-> "seconds", delay |-> d] : d \in 0..MaxDelay}
            \cup {[form |-> "date", delay |-> MaxDelay]} : h.form \in Site.retry_after}

\* float(response.headers.get("Retry-After", "5")): <<the value>>, or << >>
\* when float() raises ValueError, which it does for an HTTP-date.
retry_after(header) ==
    IF header.form = "absent" THEN <<DEFAULT_RETRY_AFTER>>
    ELSE IF header.form = "seconds" THEN <<header.delay>>
    ELSE << >>

\* retry_after = float(...); throttler.backoff(retry_after); return 0, []
\* A ValueError of float() goes to the except clause, which returns 0, []
\* without a call of backoff.
Backoff(t) ==
    /\ thr[t].pc = "backoff"
    /\ \E header \in RetryAfterHeaders :
         /\ owed' = Max(owed, now + header.delay)
         /\ IF retry_after(header) # << >>
            THEN /\ next_allowed' = backoff(next_allowed, now, retry_after(header)[1])
                 /\ deadline' = Max(deadline, now + retry_after(header)[1])
            ELSE UNCHANGED <<next_allowed, deadline>>
    /\ thr' = [thr EXCEPT ![t].pc = "idle"]
    /\ UNCHANGED <<now, min_interval, backlog, grants, crawlVars, otherVars>>

\* The monotonic clock advances.
Tick ==
    /\ now < MaxTime
    /\ now' = now + 1
    /\ UNCHANGED <<next_allowed, min_interval, thr, backlog, grants, deadline, owed, crawlVars, otherVars>>

CrawlIdle(served) ==
    /\ site = served
    /\ pending = 0
    /\ config = [max_pages |-> 1, max_depth |-> 0, max_concurrency |-> MaxThreads]
    /\ documents = {}
    /\ chunks = {}
    /\ crawl_status = "RUNNING"
    /\ last_crawled_at = 0
    /\ next_doc_id = 1
    /\ next_chunk_id = 1
    /\ utcnow = 1
    /\ pc = [r \in Runs |-> "idle"]
    /\ loaded_status = [r \in Runs |-> "PENDING"]
    /\ visited = [r \in Runs |-> {}]
    /\ queue = [r \in Runs |-> << >>]
    /\ in_flight = [r \in Runs |-> {}]
    /\ processed_pages = [r \in Runs |-> 0]
    /\ failed = [r \in Runs |-> FALSE]
    /\ done = [r \in Runs |-> {}]
    /\ client_closed = [r \in Runs |-> FALSE]
    /\ raised = [r \in Runs |-> "no"]
    /\ jobs = << >>

InitCrawlIdle == CrawlIdle("tiny")

NextThrottle ==
    \/ \E t \in Threads : ThreadStart(t)
    \/ \E t \in Threads : WaitTurn(t)
    \/ \E t \in Threads : Wake(t)
    \/ \E t \in Threads : Get(t)
    \/ \E t \in Threads : Backoff(t)
    \/ Tick

InitThrottle ==
    /\ InitPool
    /\ InitCrawlIdle
    /\ InitOthersIdle

SpecThrottle == InitThrottle /\ [][NextThrottle]_vars

\* The pool against a server that answers 429 and 503 with every form of
\* Retry-After.
InitRetryAfter ==
    /\ InitPool
    /\ CrawlIdle("flaky")
    /\ InitOthersIdle

SpecRetryAfter == InitRetryAfter /\ [][NextThrottle]_vars

(***************************************************************************)
(* The indexer's other callers: add_manual_note and reembed_project, each  *)
(* in its own session against the same store (PostgreSQL, READ COMMITTED). *)
(***************************************************************************)
MaxReembeds == 1       \* reembed requests sent in SpecIndex

\* The title of a manual note becomes its url_or_name; here it reads like the
\* URL of a page of the site.
NoteTitle == P(0)

\* The number of chunks split_into_chunks makes of a Document's raw_content;
\* never zero, since it returns "chunks or [text]".
ChunksOf(d) ==
    IF d.source_type = "CRAWLED_PAGE" /\ d.url_or_name.path \in DOMAIN Site.nchunks
    THEN Site.nchunks[d.url_or_name.path]
    ELSE 1

\* .filter(Chunk.project_id == project_id)
ProjectChunks(cs, project_id) == {c \in cs : c.project_id = project_id}

\* Mutant: the rebuild only takes the crawled pages.
ProjectDocuments_CrawledOnly(ds, project_id) ==
    {d \in ds : d.project_id = project_id /\ d.source_type = "CRAWLED_PAGE"}

\* .filter(Document.project_id == project_id)
ProjectDocuments(ds, project_id) == {d \in ds : d.project_id = project_id}

\* .order_by(Document.id.asc())
RECURSIVE Ascending(_)
Ascending(ids) ==
    IF ids = {}
    THEN << >>
    ELSE LET least == CHOOSE x \in ids : \A y \in ids : x <= y
         IN  <<least>> \o Ascending(ids \ {least})

\* Mutant: chunks.document_id is a plain integer column.
ForeignKeyHolds_Unchecked(ds, document_id) == TRUE

\* chunks.document_id REFERENCES documents(id): the check made when a Chunk
\* row is inserted.
ForeignKeyHolds(ds, document_id) == \E d \in ds : d.id = document_id

\* add_manual_note: the Document, its Chunks, one commit.  When embed_texts
\* raises, the handler raises and nothing is committed.
AddManualNote ==
    /\ notes > 0
    /\ notes' = notes - 1
    /\ \E outcome \in {"ok", "embed_error"} :
         IF outcome = "ok"
         THEN LET d == Document(next_doc_id, PROJECT, "MANUAL_ENTRY", NoteTitle)
              IN  /\ documents' = documents \cup {d}
                  /\ chunks' = chunks \cup index_document_chunks(PROJECT, d.id, ChunksOf(d),
                                                                 next_chunk_id)
                  /\ next_chunk_id' = next_chunk_id + ChunksOf(d)
         ELSE UNCHANGED <<documents, chunks, next_chunk_id>>
    /\ next_doc_id' = next_doc_id + 1
    /\ UNCHANGED <<inputVars, pending, projectVars, orchVars, jobs, throttleVars, rb,
                   callVars>>

\* reembed_project_documents: the bulk DELETE of the project's Chunk rows.  It
\* waits while a crawl job's uncommitted delete holds one of these rows.
ReembedDelete ==
    /\ rb.pc = "idle"
    /\ rb.requests > 0
    /\ \A j \in DOMAIN jobs :
          jobs[j].state = "flushed"
          => \A c \in ProjectChunks(chunks, PROJECT) : c.document_id \notin jobs[j].existing
    /\ LET ids == {c.id : c \in ProjectChunks(chunks, PROJECT)}
       IN  rb' = [ReembedTask(rb.requests - 1) EXCEPT !.pc = "query", !.deleted = ids]
    /\ UNCHANGED <<crawlVars, throttleVars, notes, callVars>>

\* reembed_project_documents: the query of the project's Documents.
ReembedQuery ==
    /\ rb.pc = "query"
    /\ rb' = [rb EXCEPT !.pc = "index",
                        !.todo = Ascending({d.id : d \in ProjectDocuments(documents, PROJECT)})]
    /\ UNCHANGED <<crawlVars, throttleVars, notes, callVars>>

\* Mutant: the rows the transaction deleted and added show although the
\* exception left the function before db.commit().
Uncommitted_Shown(cs, task) == {c \in cs : c.id \notin task.deleted} \cup task.added

\* The Chunk rows of the table when the exception leaves the function before
\* db.commit() and the session closes: the transaction is rolled back.
Uncommitted(cs, task) == cs

\* One iteration of the loop: index_document_chunks on the next Document.  An
\* exception of embed_texts or of the database leaves the function without a
\* commit, and the session rolls the transaction back.
ReembedIndex ==
    /\ rb.pc = "index"
    /\ rb.todo # << >>
    /\ LET id == Head(rb.todo)
           found == {d \in documents : d.id = id}
           n == IF found = {} THEN 1 ELSE ChunksOf(CHOOSE d \in found : TRUE)
       IN  /\ \A j \in DOMAIN jobs :
                 (jobs[j].state = "flushed" /\ id \in jobs[j].existing)
                 => LockedByReembed(jobs[j].existing)
           /\ \E outcome \in {"ok", "embed_error"} :
                 IF outcome = "ok" /\ ForeignKeyHolds(documents, id)
                 THEN /\ rb' = [rb EXCEPT !.todo = Tail(@),
                                          !.added = @ \cup index_document_chunks(
                                                              PROJECT, id, n, next_chunk_id)]
                      /\ next_chunk_id' = next_chunk_id + n
                      /\ UNCHANGED chunks
                 ELSE /\ rb' = [ReembedTask(rb.requests) EXCEPT !.outcome = "failed"]
                      /\ chunks' = Uncommitted(chunks, rb)
                      /\ UNCHANGED next_chunk_id
    /\ UNCHANGED <<inputVars, pending, documents, next_doc_id, projectVars, orchVars,
                   jobs, throttleVars, notes, callVars>>

\* db.commit(): the deleted rows go, the new rows show.
ReembedCommit ==
    /\ rb.pc = "index"
    /\ rb.todo = << >>
    /\ chunks' = {c \in chunks : c.id \notin rb.deleted} \cup rb.added
    /\ rb' = [ReembedTask(rb.requests) EXCEPT !.outcome = "done"]
    /\ UNCHANGED <<inputVars, pending, documents, next_doc_id, next_chunk_id, projectVars,
                   orchVars, jobs, throttleVars, notes, callVars>>

InitIndex ==
    /\ site = "twice"
    /\ pending = 1
    /\ config \in [max_pages : {3}, max_depth : {1}, max_concurrency : {1}]
    /\ InitCrawl
    /\ InitThrottleIdle
    /\ rb = ReembedTask(MaxReembeds)
    /\ notes = 1
    /\ arg = << >>
    /\ ret = << >>

NextIndex ==
    \/ NextCrawl
    \/ AddManualNote
    \/ ReembedDelete
    \/ ReembedQuery
    \/ ReembedIndex
    \/ ReembedCommit

SpecIndex == InitIndex /\ [][NextIndex]_vars

(***************************************************************************)
(* normalize_url as a function of its own: one call on a URL, on the URL   *)
(* with "/" appended and on the URL with "#frag" appended.                 *)
(***************************************************************************)
MaxSlashes == 3        \* most "/" characters at the end of a URL tried

\* url + "/": the slash ends the fragment when the URL has one.
AppendSlash(url) == IF url.frag THEN url ELSE [url EXCEPT !.slashes = @ + 1]

\* url + "#frag": what follows the first "#" is the fragment.
AppendFragment(url) == [url EXCEPT !.frag = TRUE]

Urls == {Url(h, p, n, f) : h \in {A, "sub.a.com"}, p \in 0..MaxSlashes,
                           n \in 0..MaxSlashes, f \in BOOLEAN}

\* Everything but the call is at rest.
InitRest ==
    /\ InitCrawlIdle
    /\ InitThrottleIdle
    /\ rb = ReembedTask(0)
    /\ notes = 0

InitNormalize ==
    /\ InitRest
    /\ arg \in {<<u>> : u \in Urls}
    /\ ret = << >>

NormalizeCall ==
    /\ arg # << >>
    /\ ret = << >>
    /\ ret' = <<[of_url |-> normalize_url(arg[1]),
                 of_slash |-> normalize_url(AppendSlash(arg[1])),
                 of_fragment |-> normalize_url(AppendFragment(arg[1]))]>>
    /\ UNCHANGED <<crawlVars, throttleVars, indexerVars, arg>>

NextNormalize == NormalizeCall

SpecNormalize == InitNormalize /\ [][NextNormalize]_vars

(***************************************************************************)
(* split_into_chunks (app/services/chunking.py).  A text is the sequence   *)
(* of its characters.                                                      *)
(***************************************************************************)
MaxLen == 5            \* longest text tried
MaxChars == 3          \* largest max_chars tried

Alphabet == {"a", "b", ".", " "}
Punctuation == {".", "!", "?"}
Whitespace == {" "}

RECURSIVE Texts(_)
Texts(n) ==
    IF n = 0
    THEN {<< >>}
    ELSE Texts(n - 1) \cup {Append(t, c) : t \in {u \in Texts(n - 1) : Len(u) = n - 1},
                                           c \in Alphabet}

\* str.strip()
RECURSIVE LStrip(_)
LStrip(t) == IF t # << >> /\ Head(t) \in Whitespace THEN LStrip(Tail(t)) ELSE t
RECURSIVE RStrip(_)
RStrip(t) ==
    IF t # << >> /\ t[Len(t)] \in Whitespace THEN RStrip(SubSeq(t, 1, Len(t) - 1)) ELSE t
Strip(t) == RStrip(LStrip(t))

\* The length of the longest prefix of t made of characters in (or out of) S.
RECURSIVE Run(_, _, _)
Run(t, S, inside) ==
    IF t # << >> /\ ((Head(t) \in S) = inside) THEN 1 + Run(Tail(t), S, inside) ELSE 0

\* str.split(): the runs of characters that are not whitespace.
RECURSIVE Words(_)
Words(t) ==
    LET u == LStrip(t)
        n == Run(u, Whitespace, FALSE)
    IN  IF u = << >> THEN << >> ELSE <<SubSeq(u, 1, n)>> \o Words(SubSeq(u, n + 1, Len(u)))

\* " ".join(parts)
RECURSIVE Join(_)
Join(parts) ==
    IF parts = << >> THEN << >>
    ELSE IF Len(parts) = 1 THEN parts[1]
    ELSE parts[1] \o <<" ">> \o Join(Tail(parts))

\* [t[i : i + n] for i in range(0, len(t), n)]
RECURSIVE Slices(_, _)
Slices(t, n) ==
    IF t = << >> THEN << >>
    ELSE <<SubSeq(t, 1, Min(n, Len(t)))>> \o Slices(SubSeq(t, Min(n, Len(t)) + 1, Len(t)), n)

\* _SENTENCE_RE.split(t): cut at every run of spaces that follows ".", "!" or
\* "?"; the run is dropped.  i is the position the search starts from.
RECURSIVE SentencesFrom(_, _)
SentencesFrom(t, i) ==
    IF i > Len(t)
    THEN <<t>>
    ELSE IF i > 1 /\ t[i] = " " /\ t[i - 1] \in Punctuation
    THEN LET n == Run(SubSeq(t, i, Len(t)), {" "}, TRUE)
         IN  <<SubSeq(t, 1, i - 1)>> \o SentencesFrom(SubSeq(t, i + n, Len(t)), 1)
    ELSE SentencesFrom(t, i + 1)

\* Mutant: what follows the first sentence is dropped.
Sentences_FirstOnly(t) == <<Head(SentencesFrom(t, 1))>>

Sentences(t) == SentencesFrom(t, 1)

\* The loop of _split_unit over the words, from the state (parts, current); the
\* length of " ".join(current) is what the code keeps in current_len.
RECURSIVE PackWords(_, _, _, _)
PackWords(words, max_chars, parts, current) ==
    IF words = << >>
    THEN IF current # << >> THEN Append(parts, Join(current)) ELSE parts
    ELSE LET word == Head(words)
             word_len == Len(word)
             current_len == Len(Join(current))
             added == IF current = << >> THEN word_len ELSE word_len + 1
         IN  IF word_len > max_chars
             THEN PackWords(Tail(words), max_chars,
                            (IF current # << >> THEN Append(parts, Join(current)) ELSE parts)
                                \o Slices(word, max_chars),
                            << >>)
             ELSE IF current # << >> /\ current_len + added > max_chars
             THEN PackWords(Tail(words), max_chars, Append(parts, Join(current)), <<word>>)
             ELSE PackWords(Tail(words), max_chars, parts, Append(current, word))

\* _split_unit
split_unit(text, max_chars) ==
    LET stripped == Strip(text)
        words == Words(stripped)
    IN  IF stripped = << >> THEN << >>
        ELSE IF Len(stripped) <= max_chars THEN <<stripped>>
        ELSE IF Len(words) <= 1 THEN Slices(stripped, max_chars)
        ELSE PackWords(words, max_chars, << >>, << >>)

\* The fragments of all sentences, in order.
RECURSIVE Fragments(_, _)
Fragments(sentences, max_chars) ==
    IF sentences = << >> THEN << >>
    ELSE split_unit(Head(sentences), max_chars) \o Fragments(Tail(sentences), max_chars)

\* The loop of split_into_chunks over the fragments, from the state
\* (chunks, current, current_len).
RECURSIVE PackFragments(_, _, _, _, _)
PackFragments(fragments, max_chars, chunks_, current, current_len) ==
    IF fragments = << >>
    THEN IF current # << >> THEN Append(chunks_, Join(current)) ELSE chunks_
    ELSE LET fragment == Head(fragments)
         IN  IF current_len + Len(fragment) > max_chars /\ current # << >>
             THEN PackFragments(Tail(fragments), max_chars, Append(chunks_, Join(current)),
                                <<fragment>>, Len(fragment) + 1)
             ELSE PackFragments(Tail(fragments), max_chars, chunks_,
                                Append(current, fragment), current_len + Len(fragment) + 1)

\* split_into_chunks: "return chunks or [text]"
split_into_chunks(text, max_chars) ==
    LET packed == PackFragments(Fragments(Sentences(Strip(text)), max_chars), max_chars,
                                << >>, << >>, 0)
    IN  IF packed # << >> THEN packed ELSE <<text>>

InitChunker ==
    /\ InitRest
    /\ arg \in {<<[text |-> t, max_chars |-> m]>> : t \in Texts(MaxLen), m \in 1..MaxChars}
    /\ ret = << >>

SplitCall ==
    /\ arg # << >>
    /\ ret = << >>
    /\ ret' = <<split_into_chunks(arg[1].text, arg[1].max_chars)>>
    /\ UNCHANGED <<crawlVars, throttleVars, indexerVars, arg>>

NextChunker == SplitCall

SpecChunker == InitChunker /\ [][NextChunker]_vars

(***************************************************************************)
(* fetch_relevant_chunks (app/services/rag.py).  The table is the sequence *)
(* of its Chunk rows in the order of updated_at, latest first; embeddings  *)
(* have integer components, so that cosines compare exactly.               *)
(***************************************************************************)
MaxRows == 3           \* most Chunk rows in the table
MaxLimit == 2          \* largest limit tried
CANDIDATE_FACTOR == 20
CANDIDATE_FLOOR == 200

Vectors == {<<1, 0>>, <<0, 1>>, <<1, 1>>, <<-1, 0>>, <<0, 0>>, << >>}

Row(project_id, embedding) == [project_id |-> project_id, embedding |-> embedding]

RowValues == {Row(PROJECT, v) : v \in Vectors} \cup {Row(OTHER_PROJECT, <<1, 0>>)}

RECURSIVE Tables(_)
Tables(n) ==
    IF n = 0
    THEN {<< >>}
    ELSE Tables(n - 1) \cup {Append(t, r) : t \in {u \in Tables(n - 1) : Len(u) = n - 1},
                                            r \in RowValues}

\* sum(l * r for l, r in zip(left, right))
RECURSIVE Dot(_, _)
Dot(left, right) ==
    IF left = << >> \/ right = << >>
    THEN 0
    ELSE Head(left) * Head(right) + Dot(Tail(left), Tail(right))

\* Mutant: _cosine_similarity without its two early returns.
cosine_similarity_NoGuard(left, right) ==
    LET dot == Dot(left, right)
    IN  <<(IF dot > 0 THEN 1 ELSE IF dot < 0 THEN -1 ELSE 0), dot * dot,
          Dot(left, left) * Dot(right, right)>>

\* _cosine_similarity, kept exact: the sign of the value and its square as
\* the fraction num / den; 0.0 is <<0, 0, 1>>.
cosine_similarity(left, right) ==
    LET dot == Dot(left, right)
        denom2 == Dot(left, left) * Dot(right, right)
    IN  IF left = << >> \/ right = << >> THEN <<0, 0, 1>>
        ELSE IF denom2 = 0 THEN <<0, 0, 1>>
        ELSE <<(IF dot > 0 THEN 1 ELSE IF dot < 0 THEN -1 ELSE 0), dot * dot, denom2>>

\* a >= b for two values of cosine_similarity
ScoreGeq(a, b) ==
    IF a[1] # b[1] THEN a[1] > b[1]
    ELSE IF a[1] >= 0 THEN a[2] * b[3] >= b[2] * a[3]
    ELSE a[2] * b[3] <= b[2] * a[3]

\* Mutant: the sort forgets reverse=True.
Precedes_Ascending(a, b) == ScoreGeq(b, a)

\* sorted(..., key=score, reverse=True) is stable: an item stays behind every
\* earlier item whose score is not smaller.
Precedes(a, b) == ScoreGeq(a, b)

\* The items of scored that stay in front of an item with the score s.
RECURSIVE Ahead(_, _)
Ahead(scored, s) ==
    IF scored # << >> /\ Precedes(scored[1].score, s) THEN 1 + Ahead(Tail(scored), s) ELSE 0

RECURSIVE Sorted(_, _)
Sorted(items, scored) ==
    IF items = << >>
    THEN scored
    ELSE LET n == Ahead(scored, Head(items).score)
         IN  Sorted(Tail(items),
                    SubSeq(scored, 1, n) \o <<Head(items)>> \o SubSeq(scored, n + 1, Len(scored)))

\* seq[:n] for n >= 0
Take(seq, n) == SubSeq(seq, 1, Min(n, Len(seq)))

fetch_relevant_chunks(table, project_id, embedding, limit) ==
    LET candidate_limit == Max(limit * CANDIDATE_FACTOR, CANDIDATE_FLOOR)
        candidates == Take(SelectSeq(table, LAMBDA c : c.project_id = project_id),
                           candidate_limit)
        items == [i \in DOMAIN candidates |->
                    [score |-> cosine_similarity(candidates[i].embedding, embedding),
                     chunk |-> candidates[i]]]
        scored == Sorted(items, << >>)
    IN  [i \in DOMAIN Take(scored, limit) |-> scored[i].chunk]

InitRetriever ==
    /\ InitRest
    /\ arg \in {<<[table |-> t, project_id |-> PROJECT, embedding |-> e, limit |-> l]>> :
                   t \in Tables(MaxRows), e \in Vectors, l \in 0..MaxLimit}
    /\ ret = << >>

FetchCall ==
    /\ arg # << >>
    /\ ret = << >>
    /\ ret' = <<fetch_relevant_chunks(arg[1].table, arg[1].project_id, arg[1].embedding,
                                      arg[1].limit)>>
    /\ UNCHANGED <<crawlVars, throttleVars, indexerVars, arg>>

NextRetriever == FetchCall

SpecRetriever == InitRetriever /\ [][NextRetriever]_vars

(***************************************************************************)
(* index_document_chunks (app/services/knowledge.py) on the texts of the   *)
(* chunker: the calls of the embedding provider and the Chunk rows that    *)
(* are added to the session.                                               *)
(***************************************************************************)
DOCUMENT_ID == 7       \* id of the Document being indexed

\* The vector the provider returns for a text.
Embedding(text) == <<Len(text), Len(SelectSeq(text, LAMBDA c : c \in Whitespace))>>

\* embed_texts: one call of the provider, one vector per text, in order.
embed_texts(texts) == [i \in DOMAIN texts |-> Embedding(texts[i])]

\* Mutant: a text of nothing but whitespace counts as no chunks.
NoChunks_Blank(texts) == \A i \in DOMAIN texts : Strip(texts[i]) = << >>

\* "if not chunks"
NoChunks(texts) == texts = << >>

\* zip(chunks, embeddings) and one Chunk per pair.
ChunkRows(project_id, document_id, texts, embeddings) ==
    [i \in 1..Min(Len(texts), Len(embeddings)) |->
        [project_id |-> project_id, document_id |-> document_id,
         content |-> texts[i], embedding |-> embeddings[i]]]

\* index_document_chunks: the provider calls it makes, the rows it adds and
\* whether it raises, when the provider answers (ok) or fails.  max_chars is
\* the default of split_into_chunks, brought down to the size of the texts.
index_document(project_id, document_id, raw_content, max_chars, ok) ==
    LET texts == split_into_chunks(raw_content, max_chars)
    IN  IF NoChunks(texts)
        THEN [calls |-> << >>, added |-> << >>, raised |-> FALSE]
        ELSE IF ok
        THEN [calls |-> <<texts>>,
              added |-> ChunkRows(project_id, document_id, texts, embed_texts(texts)),
              raised |-> FALSE]
        ELSE [calls |-> <<texts>>, added |-> << >>, raised |-> TRUE]

InitIndexer ==
    /\ InitRest
    /\ arg \in {<<[project_id |-> PROJECT, document_id |-> DOCUMENT_ID, raw_content |-> t,
                   max_chars |-> m]>> : t \in Texts(MaxLen), m \in 1..MaxChars}
    /\ ret = << >>

IndexCall ==
    /\ arg # << >>
    /\ ret = << >>
    /\ \E ok \in BOOLEAN :
         ret' = <<index_document(arg[1].project_id, arg[1].document_id, arg[1].raw_content,
                                 arg[1].max_chars, ok)>>
    /\ UNCHANGED <<crawlVars, throttleVars, indexerVars, arg>>

NextIndexer == IndexCall

SpecIndexer == InitIndexer /\ [][NextIndexer]_vars

(***************************************************************************)
(* _cosine_similarity (app/services/rag.py) on vectors of small integers.  *)
(***************************************************************************)
MaxDim == 2            \* longest vector tried
MaxComponent == 2      \* largest component tried

Components == (-1)..MaxComponent

RECURSIVE VectorsUpTo(_)
VectorsUpTo(n) ==
    IF n = 0
    THEN {<< >>}
    ELSE VectorsUpTo(n - 1)
         \cup {Append(v, c) : v \in {u \in VectorsUpTo(n - 1) : Len(u) = n - 1},
                               c \in Components}

InitCosine ==
    /\ InitRest
    /\ arg \in {<<[left |-> l, right |-> r]>> : l, r \in VectorsUpTo(MaxDim)}
    /\ ret = << >>

CosineCall ==
    /\ arg # << >>
    /\ ret = << >>
    /\ ret' = <<cosine_similarity(arg[1].left, arg[1].right)>>
    /\ UNCHANGED <<crawlVars, throttleVars, indexerVars, arg>>

NextCosine == CosineCall

SpecCosine == InitCosine /\ [][NextCosine]_vars

(***************************************************************************)
(* The link graph of the site, for the claims about coverage               *)
(***************************************************************************)
Pages == DOMAIN Site.links

\* The same-site pages that page p links to.
PageEdges(p) == {l.path : l \in {m \in Range(Site.links[p]) : same_domain(m, start_url)}}

\* The cycle-free link paths with n links that leave the start page.
RECURSIVE PathsOfLen(_)
PathsOfLen(n) ==
    IF n = 0
    THEN {<<start_url.path>>}
    ELSE UNION {{Append(p, q) : q \in PageEdges(p[Len(p)]) \ Range(p)} :
                p \in PathsOfLen(n - 1)}

SimplePaths == UNION {PathsOfLen(n) : n \in 0..(Cardinality(Pages) - 1)}

\* The same-site pages that links lead to from the start page.
Reachable == {p[Len(p)] : p \in SimplePaths}

\* The reachable pages that no cycle-free link path reaches with more than
\* max_depth links.
WithinDepth ==
    {x \in Reachable : \A p \in SimplePaths : p[Len(p)] = x => Len(p) - 1 <= config.max_depth}

JobsOf(r) == {j \in DOMAIN jobs : jobs[j].run = r}
NoPageFailure(r) == \A j \in JobsOf(r) : jobs[j].fault = "none"

(***************************************************************************)
(* Claims                                                                  *)
(***************************************************************************)

\* C1: in every state of a crawl run processed_pages is at most max_pages,
\* whatever the site, the order in which jobs complete and max_concurrency.
C1_ProcessedWithinBudget ==
    \A r \in Runs : processed_pages[r] <= config.max_pages

\* C1 witness: the budget is reached with two threads while links are still queued.
C1_Witness ==
    \E r \in Runs : /\ processed_pages[r] = config.max_pages
                    /\ config.max_concurrency > 1
                    /\ config.max_pages > 1
                    /\ queue[r] # << >>

\* C2 as stated: when at least max_pages same-site pages are reachable from
\* start_url and no page fails, the run ends with processed_pages = max_pages
\* (stated for max_depth >= 0).
C2_Original ==
    \A r \in Runs :
        (/\ pc[r] = "returned"
         /\ config.max_depth >= 0
         /\ raised[r] = "no"
         /\ NoPageFailure(r)
         /\ Cardinality(Reachable) >= config.max_pages)
        => processed_pages[r] = config.max_pages

\* C2 amended: when at least max_pages same-site pages are reachable from
\* start_url and none of them lies at the end of a cycle-free link path of more
\* than max_depth links, and no page fails, the run ends with
\* processed_pages = max_pages.
C2_ExactlyMaxPages ==
    \A r \in Runs :
        (/\ pc[r] = "returned"
         /\ raised[r] = "no"
         /\ NoPageFailure(r)
         /\ Cardinality(WithinDepth) >= config.max_pages)
        => processed_pages[r] = config.max_pages

\* C2 witness: a run over a site with more pages than the budget returns with
\* the budget exactly used, two jobs having been in flight together.
C2_Witness ==
    \E r \in Runs : /\ pc[r] = "returned"
                    /\ raised[r] = "no"
                    /\ NoPageFailure(r)
                    /\ Cardinality(WithinDepth) > config.max_pages
                    /\ config.max_pages > 2
                    /\ config.max_concurrency > 1
                    /\ processed_pages[r] = config.max_pages

\* C3: every job handed to the executor has depth <= max_depth, and the links
\* a job returns are at its depth + 1 and never beyond max_depth.
C3_DepthBound ==
    \A j \in DOMAIN jobs :
        /\ jobs[j].depth <= config.max_depth
        /\ \A i \in DOMAIN jobs[j].links :
              /\ jobs[j].links[i].depth = jobs[j].depth + 1
              /\ jobs[j].links[i].depth <= config.max_depth

\* C3 witness: with max_depth = 1 a page at depth 1 that has links was indexed
\* and the run returned without a job at depth 2.
C3_Witness ==
    \E j \in DOMAIN jobs :
        /\ config.max_depth = 1
        /\ jobs[j].depth = 1
        /\ jobs[j].processed = 1
        /\ Site.links[jobs[j].requested[1].path] # << >>
        /\ pc[jobs[j].run] = "returned"
        /\ processed_pages[jobs[j].run] < config.max_pages

\* C4 as stated: within one run no two jobs request the same URL.
C4_NoDuplicateFetch ==
    \A i, j \in DOMAIN jobs :
        (/\ i # j
         /\ jobs[i].run = jobs[j].run
         /\ jobs[i].requested # << >>
         /\ jobs[j].requested # << >>)
        => jobs[i].requested # jobs[j].requested

\* C5: the times at which any two wait_turn() calls return differ by at least
\* the interval of the throttle, whatever the threads and the backoff calls do.
C5_MinimumGap ==
    \A i, j \in DOMAIN grants :
        i < j => grants[j] - grants[i] >= interval

\* C5 witness: two threads were let through exactly one interval apart after
\* a backoff had been asked for.
C5_Witness ==
    /\ Len(grants) >= 2
    /\ grants[2] - grants[1] = interval
    /\ deadline > 0
    /\ \E t, u \in Threads : t # u /\ thr[t].pc = "get" /\ thr[u].pc = "get"

\* C6: backoff(d) at time t leaves next_allowed at max(next_allowed, t + d):
\* next_allowed never lies before a deadline t + d that a backoff has asked
\* for, and from then on no wait_turn() returns before that deadline, not even
\* one that was asleep when backoff ran.
C6_BackoffHonoured ==
    [][/\ next_allowed' >= deadline'
       /\ grants' # grants => now >= deadline]_vars

\* C6 witness: a thread that had to sleep twice, because a backoff moved
\* next_allowed while it slept, is let through at the deadline.
C6_Witness ==
    \E t \in Threads : /\ thr[t].pc = "get"
                       /\ thr[t].naps = 2
                       /\ deadline > interval
                       /\ grants[Len(grants)] = deadline
                       /\ now = deadline

\* C7: when an exception leaves the main loop, crawl_project still returns
\* to its caller, the committed crawl_status is FAILED and last_crawled_at is
\* the time of the return, not NULL.
C7_FailedRunRecorded ==
    \A r \in Runs :
        (pc[r] = "returned" /\ raised[r] # "no")
        => /\ crawl_status = "FAILED"
           /\ last_crawled_at # 0
           /\ last_crawled_at = utcnow

\* C7 witness: a first crawl of the project (last_crawled_at was NULL) that
\* indexed a page before executor.submit raised has returned.
C7_Witness ==
    \E r \in Runs : /\ pc[r] = "returned"
                    /\ raised[r] = "submit"
                    /\ PriorDocuments \cap documents = {}
                    /\ processed_pages[r] > 0
                    /\ crawl_status = "FAILED"

\* The status changes the project's state machine allows.
StatusStep(old, new) ==
    \/ old \in {"PENDING", "DONE", "FAILED"} /\ new = "RUNNING"
    \/ old = "RUNNING" /\ new \in {"DONE", "FAILED"}

\* C8 as stated: crawl_status only ever changes PENDING/DONE/FAILED -> RUNNING,
\* RUNNING -> DONE or RUNNING -> FAILED, for any crawl invocations.
C8_StatusTransitions ==
    [][crawl_status' # crawl_status => StatusStep(crawl_status, crawl_status')]_vars

\* C9: a page-level failure (network, extraction, persistence, embedding or
\* any other) ends its job with the result (0, []) and no exception; the main
\* loop is never left because of a job's result, and a run is only marked as
\* failed when the orchestrator itself raised.
C9_PageFailureContained ==
    /\ \A j \in DOMAIN jobs :
          jobs[j].fault # "none"
          => /\ jobs[j].state = "done"
             /\ jobs[j].processed = 0
             /\ jobs[j].links = << >>
             /\ ~jobs[j].exc
    /\ \A r \in Runs : /\ raised[r] # "result"
                       /\ failed[r] => raised[r] = "submit"
                       /\ (pc[r] = "returned" /\ raised[r] = "no") => crawl_status = "DONE"

\* C9 witness: a run in which a page's transaction failed went on to index a
\* page submitted after it and ended DONE.
C9_Witness ==
    \E i, j \in DOMAIN jobs :
        /\ i < j
        /\ jobs[i].run = jobs[j].run
        /\ jobs[i].fault \in {"db_error", "embed_error", "neterror", "extract_error"}
        /\ jobs[j].processed = 1
        /\ pc[jobs[i].run] = "returned"
        /\ crawl_status = "DONE"

\* The crawled-page Documents of the project stored under a URL.
CrawledDocs(url) ==
    {d \in documents : /\ d.project_id = PROJECT
                       /\ d.source_type = "CRAWLED_PAGE"
                       /\ d.url_or_name = url}

\* A job that committed its Document.
Committed(j) == jobs[j].state = "done" /\ jobs[j].document_id # 0

\* C10 as stated: after a job has re-crawled a URL for which the project held
\* a crawled-page Document, exactly one crawled-page Document of the project
\* has that URL, the replaced Documents and their Chunks are gone, and every
\* Chunk of the project under that URL belongs to that one Document.
C10_OneDocumentPerUrl ==
    \A j \in DOMAIN jobs :
        (Committed(j) /\ jobs[j].existing # {})
        => LET url == jobs[j].requested[1]
           IN  /\ Cardinality(CrawledDocs(url)) = 1
               /\ \A d \in documents : d.id \notin jobs[j].existing
               /\ \A c \in chunks : c.document_id \notin jobs[j].existing

\* C11: when reembed_project_documents commits, the document_id values of the
\* project's Chunk rows are exactly the ids of the project's Documents, and
\* none of the Chunk rows the project had when the call began is left.
C11_ReembedRebuilds ==
    [][(rb.pc = "index" /\ rb'.pc = "idle" /\ rb'.outcome = "done")
       => /\ {c.document_id : c \in {x \in chunks' : x.project_id = PROJECT}}
               = {d.id : d \in {x \in documents' : x.project_id = PROJECT}}
          /\ \A c \in chunks' : c.id \notin rb.deleted]_vars

\* C11 witness: a reembed of the project with its crawled page and its manual
\* note has committed: both Documents have new Chunks, the two old Chunks are
\* gone and the other project's Chunk is untouched.
C11_Witness ==
    /\ rb.outcome = "done"
    /\ PriorDocuments \subseteq documents
    /\ \A d \in documents : \E c \in chunks : c.document_id = d.id
    /\ \A c \in chunks : c.project_id = PROJECT => c \notin PriorChunks
    /\ \E c \in chunks : c.project_id = OTHER_PROJECT /\ c \in PriorChunks

\* C12: in every state of the store, whatever crawl page writes, re-crawls,
\* manual notes and reembeds have run, every Chunk refers to exactly one
\* stored Document, and that Document has the Chunk's project_id.
C12_ChunkBelongsToDocument ==
    \A c \in chunks :
        /\ Cardinality({d \in documents : d.id = c.document_id}) = 1
        /\ \A d \in documents : d.id = c.document_id => d.project_id = c.project_id

\* C12 witness: the project was reembedded, a manual note was posted and the
\* crawl replaced the Document of a page it had crawled before.
C12_Witness ==
    /\ rb.outcome = "done"
    /\ \E d \in documents : d.source_type = "MANUAL_ENTRY" /\ d.id >= 4
    /\ \E j \in DOMAIN jobs : /\ jobs[j].state = "done"
                               /\ jobs[j].existing # {}
                               /\ \E c \in chunks : c.document_id = jobs[j].document_id

\* C13: a crawl run that has begun ends, whatever the link graph, as long as
\* the jobs handed to the pool end: the main loop is left and the run commits
\* DONE or FAILED and returns.
C13_RunTerminates ==
    \A r \in Runs :
        (pc[r] = "begin") ~> (pc[r] = "returned" /\ crawl_status \in {"DONE", "FAILED"})

\* C13 witness: a run over a site whose pages link back to the start page
\* has returned after it followed links two levels deep.
C13_Witness ==
    \E r \in Runs : /\ pc[r] = "returned"
                    /\ \E j \in JobsOf(r) : jobs[j].depth >= 2
                    /\ \E j \in JobsOf(r) :
                          \E l \in Range(jobs[j].links) :
                              normalize_url(l.url) = normalize_url(start_url)

\* C14: in every state of a crawl run at most max_concurrency jobs are in
\* flight: futures not folded yet, and with them the jobs still running.
C14_InFlightBounded ==
    \A r \in Runs :
        /\ Cardinality(in_flight[r]) <= config.max_concurrency
        /\ Cardinality({j \in JobsOf(r) : jobs[j].state # "done"}) <= config.max_concurrency

\* C14 witness: the pool is full while the queue holds more links and the
\* page budget would allow another job.
C14_Witness ==
    \E r \in Runs : /\ pc[r] = "fill"
                    /\ config.max_concurrency > 1
                    /\ Cardinality(in_flight[r]) = config.max_concurrency
                    /\ queue[r] # << >>
                    /\ processed_pages[r] + Cardinality(in_flight[r]) < config.max_pages

\* C15: every URL handed to a job, and every URL a job requests, has the
\* network location of start_url; a link to another host, a subdomain
\* included, is dropped.
C15_SameSiteOnly ==
    \A j \in DOMAIN jobs :
        /\ jobs[j].target_url.host = start_url.host
        /\ \A i \in DOMAIN jobs[j].requested : jobs[j].requested[i].host = start_url.host

\* C15 witness: a page returned a link to a subdomain of the start host, the
\* run went on below the page budget and returned.
C15_Witness ==
    \E r \in Runs :
        /\ pc[r] = "returned"
        /\ raised[r] = "no"
        /\ processed_pages[r] < config.max_pages
        /\ \E j \in JobsOf(r) : \E l \in Range(jobs[j].links) :
               /\ l.url.host # start_url.host
               /\ l.depth <= config.max_depth

\* C16: when a run has ended FAILED because the orchestrator raised, the
\* Document of every page a job of the run committed is still stored with its
\* Chunks, unless a later job that crawled the same URL again replaced it.
C16_NoRollback ==
    \A r \in Runs :
        (pc[r] = "returned" /\ raised[r] # "no")
        => \A j \in JobsOf(r) :
              Committed(j)
              => \/ /\ \E d \in documents : d.id = jobs[j].document_id
                    /\ Cardinality({c \in chunks : c.document_id = jobs[j].document_id})
                          = Site.nchunks[jobs[j].requested[1].path]
                 \/ \E k \in JobsOf(r) : /\ k # j
                                          /\ Committed(k)
                                          /\ jobs[k].requested = jobs[j].requested
                                          /\ jobs[j].document_id \in jobs[k].existing

\* C16 witness: executor.submit raised after two pages had been committed and
\* while a job was in flight; the run ended FAILED and the pages are stored.
C16_Witness ==
    \E r \in Runs :
        /\ pc[r] = "returned"
        /\ raised[r] = "submit"
        /\ crawl_status = "FAILED"
        /\ in_flight[r] # {}
        /\ Cardinality({j \in JobsOf(r) : /\ Committed(j)
                                          /\ \E d \in documents :
                                                d.id = jobs[j].document_id}) >= 2

\* C17 as stated: for every URL u, normalize(u + "#frag") = normalize(u) and
\* normalize(u + "/") = normalize(u).
C17_NormalizeLaws ==
    ret # << >>
    => /\ ret[1].of_fragment = ret[1].of_url
       /\ ret[1].of_slash = ret[1].of_url

\* A single indivisible token: characters with no whitespace among them.
Indivisible(chunk) == chunk # << >> /\ \A i \in DOMAIN chunk : chunk[i] \notin Whitespace

\* C18 as stated: for any text and any max_chars >= 1 every chunk that
\* split_into_chunks returns is at most max_chars long, unless the chunk is a
\* single indivisible token.
C18_ChunkWithinMax ==
    ret # << >>
    => \A i \in DOMAIN ret[1] :
          Len(ret[1][i]) <= arg[1].max_chars \/ Indivisible(ret[1][i])

\* C19: for any stored chunks, any query embedding and any limit >= 0,
\* fetch_relevant_chunks returns at most limit chunks, each a stored chunk of
\* the project asked for, in the order of non-increasing cosine similarity to
\* the query embedding.
C19_TopLimitOrdered ==
    ret # << >>
    => LET result == ret[1]
           similarity(c) == cosine_similarity(c.embedding, arg[1].embedding)
       IN  /\ Len(result) <= arg[1].limit
           /\ \A i \in DOMAIN result :
                 /\ result[i].project_id = arg[1].project_id
                 /\ result[i] \in Range(arg[1].table)
           /\ \A i, j \in DOMAIN result :
                 i < j => ScoreGeq(similarity(result[i]), similarity(result[j]))

\* C19 witness: the table holds three chunks of the project, the latest the
\* least similar, and a chunk of another project; limit 2 returns the two most
\* similar chunks of the project, the more similar first.
C19_Witness ==
    /\ ret # << >>
    /\ arg[1].limit = 2
    /\ arg[1].embedding = <<1, 0>>
    /\ arg[1].table = <<Row(PROJECT, <<-1, 0>>), Row(OTHER_PROJECT, <<1, 0>>),
                        Row(PROJECT, <<1, 1>>)>>
    /\ ret[1] = <<Row(PROJECT, <<1, 1>>), Row(PROJECT, <<-1, 0>>)>>

\* C20: whenever a fetch is answered with 429 or 503, the job calls
\* backoff with the delay of the Retry-After header (5 s when there is none)
\* before it returns, so the throttle holds the delay every such answer asked
\* for, and no later wait_turn() returns before that delay has passed.
C20_RetryAfterHonoured ==
    [][/\ next_allowed' >= owed'
       /\ grants' # grants => now >= owed]_vars

\* C21: a job that ends with the result (0, []) (robots.txt disallows the
\* URL, status 429 or 503, no HTML, nothing extracted, or an exception) hands
\* back no links and leaves the tables documents and chunks as they were.
C21_ZeroYieldLeavesStore ==
    [][\A j \in DOMAIN jobs :
          (/\ jobs[j].state # "done"
           /\ jobs'[j].state = "done"
           /\ jobs'[j].processed = 0)
          => /\ jobs'[j].links = << >>
             /\ documents' = documents
             /\ chunks' = chunks]_vars

\* A crawl_project invocation that has committed RUNNING and has not yet
\* committed its final status.
InProgress(r) == pc[r] \in {"fill", "wait", "fold", "finally", "shutdown"}

\* C22: while a crawl_project invocation of the project is in progress, the
\* committed crawl_status is RUNNING, from before its first job is submitted
\* on, also when two invocations on the project run at the same time.
C22_RunningWhileInProgress ==
    \A r \in Runs : InProgress(r) => crawl_status = "RUNNING"

\* C23: index_document_chunks calls the embedding provider exactly once for
\* a document, with all the chunk texts of the document, and when the provider
\* answers it adds exactly one Chunk per chunk text, in the order of the
\* chunker, each with the id of the document as its document_id.
C23_OneCallOneChunkPerText ==
    ret # << >>
    => LET texts == split_into_chunks(arg[1].raw_content, arg[1].max_chars)
       IN  /\ Len(ret[1].calls) = 1
           /\ ret[1].calls[1] = texts
           /\ ~ret[1].raised
              => /\ Len(ret[1].added) = Len(texts)
                 /\ \A i \in DOMAIN texts :
                       /\ ret[1].added[i].content = texts[i]
                       /\ ret[1].added[i].document_id = arg[1].document_id

\* C23 witness: a document of two sentences was indexed with one call of the
\* provider and two Chunk rows, the first sentence first.
C23_Witness ==
    /\ ret # << >>
    /\ arg[1].raw_content = <<"a", ".", " ", "a", "a">>
    /\ arg[1].max_chars = 2
    /\ Len(ret[1].calls) = 1
    /\ Len(ret[1].added) = 2
    /\ ret[1].added[1].content = <<"a", ".">>
    /\ ret[1].added[2].content = <<"a", "a">>

\* a[1] * b[1] + ... + a[n] * b[n]
RECURSIVE SumOfProducts(_, _, _)
SumOfProducts(a, b, n) == IF n = 0 THEN 0 ELSE a[n] * b[n] + SumOfProducts(a, b, n - 1)

\* The square of the L2 norm.
Norm2(v) == SumOfProducts(v, v, Len(v))

\* C24: cosine(a, b) is 0 whenever one of the vectors is empty or has the
\* L2 norm zero, and no division by zero happens; otherwise it is the dot
\* product over the product of the norms (its sign is that of the dot product
\* and its square is dot^2 / (|a|^2 |b|^2)); cosine([1,0],[1,0]) = 1,
\* cosine([1,0],[0,1]) = 0 and cosine([],[1,2]) = 0.
C24_CosineValue ==
    ret # << >>
    => LET a == arg[1].left
           b == arg[1].right
           c == ret[1]
           zero == <<0, 0, 1>>
       IN  /\ c[3] # 0
           /\ (a = << >> \/ b = << >> \/ Norm2(a) = 0 \/ Norm2(b) = 0) => c = zero
           /\ (Len(a) = Len(b) /\ Norm2(a) # 0 /\ Norm2(b) # 0)
              => LET dot == SumOfProducts(a, b, Len(a))
                 IN  /\ c[1] = (IF dot > 0 THEN 1 ELSE IF dot < 0 THEN -1 ELSE 0)
                     /\ c[2] * Norm2(a) * Norm2(b) = dot * dot * c[3]
           /\ (a = <<1, 0>> /\ b = <<1, 0>>) => (c[1] = 1 /\ c[2] = c[3])
           /\ (a = <<1, 0>> /\ b = <<0, 1>>) => c = zero
           /\ (a = << >> /\ b = <<1, 2>>) => c = zero

\* C24 witness: the cosine of a vector of norm zero and the vector [1, 2] was
\* computed.
C24_Witness ==
    /\ ret # << >>
    /\ arg[1].left = <<0, 0>>
    /\ arg[1].right = <<1, 2>>
    /\ ret[1] = <<0, 0, 1>>

\* C25: in every state of the main loop, after a fill phase and after each
\* folded result, processed_pages + len(in_flight) <= max_pages: the jobs
\* outstanding never exceed what is left of the page budget.
C25_OutstandingWithinBudget ==
    \A r \in Runs :
        processed_pages[r] + Cardinality(in_flight[r]) <= config.max_pages

\* C25 witness: after a fill phase the budget, not the pool, holds back the
\* queue: a thread is free and a link is queued, and processed_pages plus the
\* jobs in flight make up max_pages.
C25_Witness ==
    \E r \in Runs : /\ pc[r] = "wait"
                    /\ queue[r] # << >>
                    /\ processed_pages[r] > 0
                    /\ in_flight[r] # {}
                    /\ Cardinality(in_flight[r]) < config.max_concurrency
                    /\ processed_pages[r] + Cardinality(in_flight[r]) = config.max_pages

\* C26: a job returns processed = 1 exactly when it committed a Document, so
\* at the end of a run processed_pages is the number of the run's jobs that
\* committed a Document, and a run commits at most max_pages Documents.
C26_ProcessedCountsCommits ==
    /\ \A j \in DOMAIN jobs :
          jobs[j].state = "done" => (jobs[j].processed = 1 <=> Committed(j))
    /\ \A r \in Runs :
          pc[r] = "returned"
          => /\ processed_pages[r] = Cardinality({j \in JobsOf(r) : Committed(j)})
             /\ Cardinality({j \in JobsOf(r) : Committed(j)}) <= config.max_pages

\* C27: in every state of the store the project holds at most one
\* crawled-page Document per normalized URL, also when two crawl runs of the
\* project, or two jobs, store the same URL in transactions that overlap.
C27_UniqueCrawledDocument ==
    \A d, e \in documents :
        (/\ d.project_id = e.project_id
         /\ d.source_type = "CRAWLED_PAGE"
         /\ e.source_type = "CRAWLED_PAGE"
         /\ d.url_or_name = e.url_or_name)
        => d.id = e.id

\* C28: reembed_project_documents is all or nothing: a call in which the
\* embedding provider fails for a Document ends with the exception, and no
\* step of it, from the DELETE to the exception, changes the committed Chunk
\* rows or Documents; only the commit of a call that indexed every Document
\* does.
C28_ReembedAllOrNothing ==
    [][/\ (rb' # rb /\ rb'.outcome # "done")
          => (chunks' = chunks /\ documents' = documents)
       /\ (rb' # rb /\ rb'.outcome = "failed")
          => (rb'.pc = "idle" /\ rb'.deleted = {} /\ rb'.added = {})]_vars

\* C28 witness: with no crawl requested, a reembed call that had deleted the
\* project's Chunks and flushed new rows failed at a later Document, and the
\* table holds the rows it held before the call.
C28_Witness ==
    /\ rb.outcome = "failed"
    /\ jobs = << >>
    /\ pc = [r \in Runs |-> "idle"]
    /\ notes > 0
    /\ next_chunk_id > 4
    /\ chunks = PriorChunks

\* C29: when a run has committed its final status, DONE or FAILED, none of
\* its jobs is still running, so the run writes no Document and no Chunk
\* afterwards; and when the run ended without an exception, the result of
\* every job it submitted has been folded into processed_pages.
C29_QuiescentAtFinalStatus ==
    \A r \in Runs :
        pc[r] = "returned"
        => /\ \A j \in JobsOf(r) : jobs[j].state = "done"
           /\ raised[r] = "no"
              => /\ in_flight[r] = {}
                 /\ processed_pages[r] = Cardinality({j \in JobsOf(r) : jobs[j].processed = 1})

\* C29 witness: executor.submit raised while a job was in flight; the job
\* committed its Document before shutdown returned, and the run has returned
\* with the job's result not folded.
C29_Witness ==
    \E r \in Runs : /\ pc[r] = "returned"
                    /\ raised[r] = "submit"
                    /\ crawl_status = "FAILED"
                    /\ \E j \in in_flight[r] : Committed(j)

\* The characters of a text that are not whitespace, in order.
Solid(text) == SelectSeq(text, LAMBDA c : c \notin Whitespace)

\* chunks[1] + chunks[2] + ...
RECURSIVE Concat(_)
Concat(texts) == IF texts = << >> THEN << >> ELSE Head(texts) \o Concat(Tail(texts))

\* C30: split_into_chunks loses nothing and reorders nothing: for any text
\* and max_chars >= 1 the chunks, put together and with all whitespace taken
\* out, are the text with all whitespace taken out.
C30_NothingLost ==
    ret # << >> => Solid(Concat(ret[1])) = Solid(arg[1].text)

\* C30 witness: a text of two sentences, the second longer than max_chars,
\* was split into three chunks.
C30_Witness ==
    /\ ret # << >>
    /\ arg[1].text = <<"a", ".", " ", "b", "a">>
    /\ arg[1].max_chars = 1
    /\ ret[1] = <<<<"a">>, <<".">>, <<"b">>, <<"a">>>>
====
